---- MODULE Spec2Model ----
(***************************************************************************)
(* Model of gelatin's event dispatcher                                     *)
(* (subcrates/gelatin/src/application.rs, event_loop.rs).                  *)
(*                                                                         *)
(* The winit loop thread calls the handlers new_events, resumed,           *)
(* window_event, about_to_wait and exiting of AppWithAppHandler.  Each     *)
(* handler is a sequence of steps, one per call it makes into a            *)
(* collaborator (a window, the application handler, the platform); pc is   *)
(* the loop thread's position.  The clock (Instant::now) and               *)
(* request_exit() calls made by other threads or from inside a hook        *)
(* interleave with those steps.                                            *)
(***************************************************************************)
EXTENDS Integers, Sequences, FiniteSets

(* ------------------------------ bounds --------------------------------- *)
MaxWindows == 2
MaxTick == 2
MaxExitCalls == 2
MaxResumes == 2
MaxApply == 3

(* Duration::from_micros(100), in microseconds *)
Margin == 100

(* the model's clock granularity: half the margin, so that instants below, *)
(* at and above now + Margin all occur                                     *)
Quantum == Margin \div 2
MaxNow == MaxTick * Quantum
Ticks == {k * Quantum : k \in 0..MaxTick}
Instants == {k * Quantum : k \in 0..(MaxTick + 2)}

WindowIds == 1..MaxWindows
Kinds == {"RedrawRequested", "CloseRequested", "Destroyed", "Other"}

(* ------------------- winit::event_loop::ControlFlow -------------------- *)
Poll == [k |-> "Poll", t |-> 0]
Wait == [k |-> "Wait", t |-> 0]
WaitUntil(time) == [k |-> "WaitUntil", t |-> time]
ControlFlow == {Poll, Wait} \cup {WaitUntil(time) : time \in Instants}

(* --------------------------- crate::NextUpdate ------------------------- *)
Soonest == [n |-> "Soonest", t |-> 0]
Latest == [n |-> "Latest", t |-> 0]
NextUpdateWaitUntil(time) == [n |-> "WaitUntil", t |-> time]
NextUpdate == {Soonest, Latest} \cup {NextUpdateWaitUntil(time) : time \in Instants}

(* impl From<NextUpdate> for ControlFlow: the `.into()` of the handlers *)
into(next_update) ==
    CASE next_update.n = "Soonest" -> Poll
      [] next_update.n = "WaitUntil" -> WaitUntil(next_update.t)
      [] OTHER -> Wait

(* ------------------------------ state ---------------------------------- *)
VARIABLES
    control_flow,       \* the policy committed to the platform (event_loop.control_flow())
    now,                \* Instant::now()
    EXIT_REQUESTED,     \* the static AtomicBool
    windows,            \* Application.windows: window id -> window
    first_resume_done,  \* Application.first_resume_done
    loop_exiting,       \* event_loop.exit() has been called
    pc,                 \* position of the loop thread
    todo,               \* windows the running `for window in windows.values()` has yet to visit
    calls,              \* the calls made by the running (or last) handler, in order
    requested,          \* history: strongest policy proposed since the last reset
    exit_calls,         \* history: number of request_exit() calls (saturating)
    resumes,            \* history: number of resumed notifications
    surface_hooks,      \* history: number of handle_can_create_surface invocations
    closed,             \* history: a close-requested event has called request_exit
    removed             \* history: ids of the windows the registry has removed

vars == <<control_flow, now, EXIT_REQUESTED, windows, first_resume_done, loop_exiting,
          pc, todo, calls, requested, exit_calls, resumes, surface_hooks, closed, removed>>

(* a call record: the operation, the window it concerns (0: none; for an  *)
(* aggregate_control_flow call, the clock at the call) and its argument or *)
(* answer                                                                  *)
Call(op, w, v) == [op |-> op, w |-> w, v |-> v]

Min(a, b) == IF a < b THEN a ELSE b

(* --------------------- the wake policy order --------------------------- *)
(* Now > At(earlier) > At(later) > Idle *)
StrongerThan(a, b) ==
    \/ a.k = "Poll" /\ b.k # "Poll"
    \/ a.k = "WaitUntil" /\ b.k = "Wait"
    \/ a.k = "WaitUntil" /\ b.k = "WaitUntil" /\ a.t < b.t

Strongest(a, b) == IF StrongerThan(b, a) THEN b ELSE a

(* ----------------------- control flow functions ------------------------ *)
(* set_control_flow comparing with <= *)
set_control_flow_inclusive(flow, clock) ==
    IF flow.k = "WaitUntil"
    THEN IF flow.t <= clock + Margin THEN [k |-> "Poll", t |-> 0] ELSE flow
    ELSE flow

(* set_control_flow committing Wait for a near deadline *)
set_control_flow_relax(flow, clock) ==
    IF flow.k = "WaitUntil"
    THEN IF flow.t < clock + Margin THEN [k |-> "Wait", t |-> 0] ELSE flow
    ELSE flow

(* the value the platform holds after set_control_flow(event_loop, flow)   *)
(* called when the clock reads `clock`                                     *)
set_control_flow(flow, clock) ==
    IF flow.k = "WaitUntil"
    THEN LET very_short_time_from_now == clock + Margin
         IN  IF flow.t < very_short_time_from_now THEN Poll ELSE flow
    ELSE flow

(* aggregate_control_flow keeping the later of two instants *)
aggregate_control_flow_later(original, new, clock) ==
    CASE new.k = "Poll" -> set_control_flow(new, clock)
      [] new.k = "WaitUntil" ->
            (CASE original.k = "WaitUntil" ->
                    IF new.t > original.t THEN set_control_flow(new, clock) ELSE original
               [] original.k = "Wait" -> set_control_flow(new, clock)
               [] OTHER -> original)
      [] OTHER -> original

(* aggregate_control_flow committing through event_loop.set_control_flow, *)
(* without the near-deadline rewrite *)
aggregate_control_flow_direct(original, new, clock) ==
    CASE new.k = "Poll" -> new
      [] new.k = "WaitUntil" ->
            (CASE original.k = "WaitUntil" ->
                    IF new.t < original.t THEN new ELSE original
               [] original.k = "Wait" -> new
               [] OTHER -> original)
      [] OTHER -> original

(* aggregate_control_flow adopting an instant over a committed Poll *)
aggregate_control_flow_over_poll(original, new, clock) ==
    CASE new.k = "Poll" -> set_control_flow(new, clock)
      [] new.k = "WaitUntil" ->
            (CASE original.k = "WaitUntil" ->
                    IF new.t < original.t THEN set_control_flow(new, clock) ELSE original
               [] OTHER -> set_control_flow(new, clock))
      [] OTHER -> original

(* the value the platform holds after aggregate_control_flow(event_loop, new) *)
aggregate_control_flow(original, new, clock) ==
    CASE new.k = "Poll" -> set_control_flow(new, clock)
      [] new.k = "WaitUntil" ->
            (CASE original.k = "WaitUntil" ->
                    IF new.t < original.t THEN set_control_flow(new, clock) ELSE original
               [] original.k = "Wait" -> set_control_flow(new, clock)
               [] OTHER -> original)
      [] OTHER -> original

sanitize_control_flow(original, clock) == set_control_flow(original, clock)

(* a handler folds a participant's answer into the committed policy *)
Fold(next_update) ==
    /\ control_flow' = aggregate_control_flow(control_flow, into(next_update), now)
    /\ requested' = Strongest(requested, into(next_update))

(* ------------------------------ registry ------------------------------- *)
Window(id) == [id |-> id]
get_id(window) == window.id

register_window(ws, window) ==
    [i \in (DOMAIN ws) \cup {get_id(window)} |->
        IF i = get_id(window) THEN window ELSE ws[i]]

(* remove that leaves the entry in place *)
remove_nothing(ws, id) == ws

remove(ws, id) == [i \in (DOMAIN ws) \ {id} |-> ws[i]]

RECURSIVE RegisterAll(_, _)
RegisterAll(ws, ids) ==
    IF ids = {} THEN ws
    ELSE LET i == CHOOSE x \in ids : \A y \in ids : x <= y
         IN  RegisterAll(register_window(ws, Window(i)), ids \ {i})

RECURSIVE RegisterCalls(_)
RegisterCalls(ids) ==
    IF ids = {} THEN <<>>
    ELSE LET i == CHOOSE x \in ids : \A y \in ids : x <= y
         IN  <<Call("register_window", i, "")>> \o RegisterCalls(ids \ {i})

(* ------------------------------- Init ---------------------------------- *)
Init ==
    /\ control_flow = Wait
    /\ now = 0
    /\ EXIT_REQUESTED = FALSE
    /\ windows = <<>>
    /\ first_resume_done = FALSE
    /\ loop_exiting = FALSE
    /\ pc = "waiting"
    /\ todo = {}
    /\ calls = <<>>
    /\ requested = Wait
    /\ exit_calls = 0
    /\ resumes = 0
    /\ surface_hooks = 0
    /\ closed = FALSE
    /\ removed = {}

Running == pc \notin {"done", "panicked"}

(* --------------------------- environment ------------------------------- *)
Tick ==
    /\ Running
    /\ now < MaxNow
    /\ now' = now + Quantum
    /\ UNCHANGED <<control_flow, EXIT_REQUESTED, windows, first_resume_done, loop_exiting,
                   pc, todo, calls, requested, exit_calls, resumes, surface_hooks, closed, removed>>

(* request_exit flipping the flag instead of setting it *)
request_exit_toggle ==
    /\ EXIT_REQUESTED' = ~EXIT_REQUESTED
    /\ exit_calls' = Min(exit_calls + 1, MaxExitCalls)

(* EXIT_REQUESTED.store(true, Ordering::Relaxed) *)
request_exit ==
    /\ EXIT_REQUESTED' = TRUE
    /\ exit_calls' = Min(exit_calls + 1, MaxExitCalls)

(* request_exit() called by another thread, or by a hook on the loop thread *)
external_request_exit ==
    /\ Running
    /\ exit_calls < MaxExitCalls
    /\ request_exit
    /\ UNCHANGED <<control_flow, now, windows, first_resume_done, loop_exiting,
                   pc, todo, calls, requested, resumes, surface_hooks, closed, removed>>

(* ------------------------------ new_events ----------------------------- *)
(* new_events without the reset to Wait *)
new_events_begin_no_reset ==
    /\ pc = "waiting"
    /\ requested' = Wait
    /\ todo' = DOMAIN windows
    /\ calls' = <<Call("new_events", 0, "")>>
    /\ pc' = "new_events"
    /\ UNCHANGED <<control_flow, now, EXIT_REQUESTED, windows, first_resume_done, loop_exiting,
                   exit_calls, resumes, surface_hooks, closed, removed>>

(* new_events visiting every window it has ever known *)
new_events_begin_stale ==
    /\ pc = "waiting"
    /\ control_flow' = Wait
    /\ requested' = Wait
    /\ todo' = (DOMAIN windows) \cup removed
    /\ calls' = <<Call("new_events", 0, "")>>
    /\ pc' = "new_events"
    /\ UNCHANGED <<now, EXIT_REQUESTED, windows, first_resume_done, loop_exiting,
                   exit_calls, resumes, surface_hooks, closed, removed>>

new_events_begin ==
    /\ pc = "waiting"
    /\ control_flow' = Wait
    /\ requested' = Wait
    /\ todo' = DOMAIN windows
    /\ calls' = <<Call("new_events", 0, "")>>
    /\ pc' = "new_events"
    /\ UNCHANGED <<now, EXIT_REQUESTED, windows, first_resume_done, loop_exiting,
                   exit_calls, resumes, surface_hooks, closed, removed>>

new_events_window ==
    /\ pc = "new_events"
    /\ \E id \in todo, next_update \in NextUpdate :
        /\ Fold(next_update)
        /\ todo' = todo \ {id}
        /\ calls' = calls \o <<Call("handle_loop_wake_up", id, next_update),
                                Call("aggregate_control_flow", now, into(next_update))>>
    /\ UNCHANGED <<now, EXIT_REQUESTED, windows, first_resume_done, loop_exiting,
                   pc, exit_calls, resumes, surface_hooks, closed, removed>>

(* new_events leaving its loop after the first window *)
new_events_return_early ==
    /\ pc = "new_events"
    /\ todo = {} \/ Len(calls) > 1
    /\ pc' = "events"
    /\ UNCHANGED <<control_flow, now, EXIT_REQUESTED, windows, first_resume_done, loop_exiting,
                   todo, calls, requested, exit_calls, resumes, surface_hooks, closed, removed>>

new_events_return ==
    /\ pc = "new_events"
    /\ todo = {}
    /\ pc' = "events"
    /\ UNCHANGED <<control_flow, now, EXIT_REQUESTED, windows, first_resume_done, loop_exiting,
                   todo, calls, requested, exit_calls, resumes, surface_hooks, closed, removed>>

(* ------------------------------- resumed ------------------------------- *)
(* resumed without the first_resume_done guard *)
resumed_unguarded ==
    /\ pc = "events"
    /\ resumes < MaxResumes
    /\ resumes' = resumes + 1
    /\ first_resume_done' = TRUE
    /\ surface_hooks' = surface_hooks + 1
    /\ \E ids \in SUBSET (WindowIds \ DOMAIN windows) :
        /\ windows' = RegisterAll(windows, ids)
        /\ removed' = removed \ ids
        /\ calls' = <<Call("resumed", 0, ""), Call("handle_can_create_surface", 0, "")>>
                    \o RegisterCalls(ids)
    /\ UNCHANGED <<control_flow, now, EXIT_REQUESTED, loop_exiting, pc, todo,
                   requested, exit_calls, closed>>

(* handle_can_create_surface may create windows (ActiveEventLoop::create_window), *)
(* each of which registers itself *)
resumed ==
    /\ pc = "events"
    /\ resumes < MaxResumes
    /\ resumes' = resumes + 1
    /\ IF ~first_resume_done
       THEN /\ first_resume_done' = TRUE
            /\ surface_hooks' = surface_hooks + 1
            /\ \E ids \in SUBSET (WindowIds \ DOMAIN windows) :
                /\ windows' = RegisterAll(windows, ids)
                /\ removed' = removed \ ids
                /\ calls' = <<Call("resumed", 0, ""), Call("handle_can_create_surface", 0, "")>>
                            \o RegisterCalls(ids)
       ELSE /\ calls' = <<Call("resumed", 0, "")>>
            /\ UNCHANGED <<first_resume_done, surface_hooks, windows, removed>>
    /\ UNCHANGED <<control_flow, now, EXIT_REQUESTED, loop_exiting, pc, todo,
                   requested, exit_calls, closed>>

(* ----------------------------- about_to_wait --------------------------- *)
(* about_to_wait exiting only when no timed or immediate wake is pending *)
about_to_wait_begin_unless_pending ==
    /\ pc = "events"
    /\ IF EXIT_REQUESTED /\ control_flow.k = "Wait"
       THEN /\ loop_exiting' = TRUE
            /\ calls' = <<Call("about_to_wait", 0, ""), Call("exit", 0, "")>>
            /\ pc' = "exiting"
            /\ UNCHANGED todo
       ELSE /\ todo' = DOMAIN windows
            /\ calls' = <<Call("about_to_wait", 0, "")>>
            /\ pc' = "about_to_wait"
            /\ UNCHANGED loop_exiting
    /\ UNCHANGED <<control_flow, now, EXIT_REQUESTED, windows, first_resume_done,
                   requested, exit_calls, resumes, surface_hooks, closed, removed>>

(* about_to_wait without the return after event_loop.exit() *)
about_to_wait_begin_no_return ==
    /\ pc = "events"
    /\ IF EXIT_REQUESTED
       THEN /\ loop_exiting' = TRUE
            /\ calls' = <<Call("about_to_wait", 0, ""), Call("exit", 0, "")>>
       ELSE /\ calls' = <<Call("about_to_wait", 0, "")>>
            /\ UNCHANGED loop_exiting
    /\ todo' = DOMAIN windows
    /\ pc' = "about_to_wait"
    /\ UNCHANGED <<control_flow, now, EXIT_REQUESTED, windows, first_resume_done,
                   requested, exit_calls, resumes, surface_hooks, closed, removed>>

about_to_wait_begin ==
    /\ pc = "events"
    /\ IF EXIT_REQUESTED
       THEN /\ loop_exiting' = TRUE
            /\ calls' = <<Call("about_to_wait", 0, ""), Call("exit", 0, "")>>
            /\ pc' = "exiting"
            /\ UNCHANGED todo
       ELSE /\ todo' = DOMAIN windows
            /\ calls' = <<Call("about_to_wait", 0, "")>>
            /\ pc' = "about_to_wait"
            /\ UNCHANGED loop_exiting
    /\ UNCHANGED <<control_flow, now, EXIT_REQUESTED, windows, first_resume_done,
                   requested, exit_calls, resumes, surface_hooks, closed, removed>>

(* about_to_wait requesting a redraw whatever redraw_needed answers *)
about_to_wait_window_always_redraw ==
    /\ pc = "about_to_wait"
    /\ \E id \in todo, redraw_needed \in BOOLEAN :
        /\ todo' = todo \ {id}
        /\ calls' = calls \o <<Call("main_events_cleared", id, ""),
                                Call("redraw_needed", id, IF redraw_needed THEN "true" ELSE "false"),
                                Call("request_redraw", id, "")>>
    /\ UNCHANGED <<control_flow, now, EXIT_REQUESTED, windows, first_resume_done, loop_exiting,
                   pc, requested, exit_calls, resumes, surface_hooks, closed, removed>>

about_to_wait_window ==
    /\ pc = "about_to_wait"
    /\ \E id \in todo, redraw_needed \in BOOLEAN :
        /\ todo' = todo \ {id}
        /\ calls' = calls \o <<Call("main_events_cleared", id, "")>>
                          \o (IF redraw_needed
                              THEN <<Call("redraw_needed", id, "true"),
                                     Call("request_redraw", id, "")>>
                              ELSE <<Call("redraw_needed", id, "false")>>)
    /\ UNCHANGED <<control_flow, now, EXIT_REQUESTED, windows, first_resume_done, loop_exiting,
                   pc, requested, exit_calls, resumes, surface_hooks, closed, removed>>

about_to_wait_return ==
    /\ pc = "about_to_wait"
    /\ todo = {}
    /\ pc' = "waiting"
    /\ UNCHANGED <<control_flow, now, EXIT_REQUESTED, windows, first_resume_done, loop_exiting,
                   todo, calls, requested, exit_calls, resumes, surface_hooks, closed, removed>>

(* ------------------------------- exiting ------------------------------- *)
exiting ==
    /\ pc = "exiting"
    /\ calls' = <<Call("exiting", 0, ""), Call("application_handler.exiting", 0, "")>>
    /\ pc' = "done"
    /\ UNCHANGED <<control_flow, now, EXIT_REQUESTED, windows, first_resume_done, loop_exiting,
                   todo, requested, exit_calls, resumes, surface_hooks, closed, removed>>

(* ----------------------------- window_event ---------------------------- *)
(* the window_id and event arguments of the running window_event *)
window_id == calls[1].w
event == calls[1].v

(* window_event: sanitize_control_flow(event_loop) *)
window_event_begin ==
    /\ pc = "events"
    /\ \E id \in WindowIds, kind \in Kinds :
        calls' = <<Call("window_event", id, kind),
                   Call("sanitize_control_flow", 0, control_flow)>>
    /\ control_flow' = sanitize_control_flow(control_flow, now)
    /\ pc' = "window_event_handler"
    /\ UNCHANGED <<now, EXIT_REQUESTED, windows, first_resume_done, loop_exiting,
                   todo, requested, exit_calls, resumes, surface_hooks, closed, removed>>

(* window_event: handle_window_event and the fold of its answer *)
window_event_handler ==
    /\ pc = "window_event_handler"
    /\ \E next_update \in NextUpdate : Fold(next_update)
    /\ calls' = Append(calls, Call("handle_window_event", window_id, event))
    /\ pc' = "window_event_redraw"
    /\ UNCHANGED <<now, EXIT_REQUESTED, windows, first_resume_done, loop_exiting,
                   todo, exit_calls, resumes, surface_hooks, closed, removed>>

(* window_event: the redraw of a RedrawRequested event *)
window_event_redraw ==
    /\ pc = "window_event_redraw"
    /\ IF event = "RedrawRequested"
       THEN IF window_id \in DOMAIN windows
            THEN /\ \E next_update \in NextUpdate :
                        /\ Fold(next_update)
                        /\ calls' = Append(calls, Call("redraw", window_id, next_update))
                 /\ pc' = "window_event_process"
            ELSE /\ pc' = "panicked"
                 /\ UNCHANGED <<control_flow, requested, calls>>
       ELSE /\ pc' = "window_event_process"
            /\ UNCHANGED <<control_flow, requested, calls>>
    /\ UNCHANGED <<now, EXIT_REQUESTED, windows, first_resume_done, loop_exiting,
                   todo, exit_calls, resumes, surface_hooks, closed, removed>>

(* window_event skipping process_event for a window it does not find *)
window_event_process_lenient ==
    /\ pc = "window_event_process"
    /\ IF calls[1].v = "CloseRequested"
       THEN /\ request_exit
            /\ closed' = TRUE
       ELSE UNCHANGED <<EXIT_REQUESTED, exit_calls, closed, removed>>
    /\ LET requests == IF calls[1].v = "CloseRequested"
                       THEN <<Call("request_exit", 0, "")>> ELSE <<>>
       IN  IF calls[1].w \in DOMAIN windows
           THEN calls' = calls \o requests \o <<Call("process_event", calls[1].w, calls[1].v)>>
           ELSE calls' = calls \o requests
    /\ pc' = "window_event_finish"
    /\ UNCHANGED <<control_flow, now, windows, first_resume_done, loop_exiting,
                   todo, requested, resumes, surface_hooks, removed>>

(* window_event commanding termination itself on CloseRequested *)
window_event_process_exit_now ==
    /\ pc = "window_event_process"
    /\ IF calls[1].v = "CloseRequested"
       THEN /\ request_exit
            /\ closed' = TRUE
            /\ loop_exiting' = TRUE
       ELSE UNCHANGED <<EXIT_REQUESTED, exit_calls, closed, loop_exiting>>
    /\ LET requests == IF calls[1].v = "CloseRequested"
                       THEN <<Call("request_exit", 0, ""), Call("exit", 0, "")>> ELSE <<>>
       IN  IF calls[1].w \in DOMAIN windows
           THEN /\ calls' = calls \o requests
                                  \o <<Call("process_event", calls[1].w, calls[1].v)>>
                /\ pc' = "window_event_finish"
           ELSE /\ calls' = calls \o requests
                /\ pc' = "panicked"
    /\ UNCHANGED <<control_flow, now, windows, first_resume_done,
                   todo, requested, resumes, surface_hooks, removed>>

(* window_event removing a destroyed window before its process_event *)
window_event_process_remove_first ==
    /\ pc = "window_event_process"
    /\ IF calls[1].v = "CloseRequested"
       THEN /\ request_exit
            /\ closed' = TRUE
       ELSE UNCHANGED <<EXIT_REQUESTED, exit_calls, closed>>
    /\ LET requests == IF calls[1].v = "CloseRequested"
                       THEN <<Call("request_exit", 0, "")>> ELSE <<>>
           removals == IF calls[1].v = "Destroyed"
                       THEN <<Call("remove", calls[1].w, "")>> ELSE <<>>
       IN  IF calls[1].w \in DOMAIN windows
           THEN /\ calls' = calls \o requests \o removals
                                  \o <<Call("process_event", calls[1].w, calls[1].v)>>
                /\ windows' = IF calls[1].v = "Destroyed"
                              THEN remove(windows, calls[1].w) ELSE windows
                /\ pc' = "window_event_finish"
           ELSE /\ calls' = calls \o requests
                /\ windows' = windows
                /\ pc' = "panicked"
    /\ UNCHANGED <<control_flow, now, first_resume_done, loop_exiting,
                   todo, requested, resumes, surface_hooks, removed>>

(* window_event not forwarding a RedrawRequested it has already handled *)
window_event_process_skip_redraw ==
    /\ pc = "window_event_process"
    /\ IF calls[1].v = "CloseRequested"
       THEN /\ request_exit
            /\ closed' = TRUE
       ELSE UNCHANGED <<EXIT_REQUESTED, exit_calls, closed>>
    /\ LET requests == IF calls[1].v = "CloseRequested"
                       THEN <<Call("request_exit", 0, "")>> ELSE <<>>
       IN  IF calls[1].w \in DOMAIN windows
           THEN /\ calls' = IF calls[1].v = "RedrawRequested"
                            THEN calls
                            ELSE calls \o requests
                                       \o <<Call("process_event", calls[1].w, calls[1].v)>>
                /\ pc' = "window_event_finish"
           ELSE /\ calls' = calls \o requests
                /\ pc' = "panicked"
    /\ UNCHANGED <<control_flow, now, windows, first_resume_done, loop_exiting,
                   todo, requested, resumes, surface_hooks, removed>>

(* window_event: request_exit on CloseRequested, the destroyed flag, process_event *)
window_event_process ==
    /\ pc = "window_event_process"
    /\ IF event = "CloseRequested"
       THEN /\ request_exit
            /\ closed' = TRUE
       ELSE UNCHANGED <<EXIT_REQUESTED, exit_calls, closed, removed>>
    /\ LET requests == IF event = "CloseRequested"
                       THEN <<Call("request_exit", 0, "")>> ELSE <<>>
       IN  IF window_id \in DOMAIN windows
           THEN /\ calls' = calls \o requests \o <<Call("process_event", window_id, event)>>
                /\ pc' = "window_event_finish"
           ELSE /\ calls' = calls \o requests
                /\ pc' = "panicked"
    /\ UNCHANGED <<control_flow, now, windows, first_resume_done, loop_exiting,
                   todo, requested, resumes, surface_hooks, removed>>

(* window_event removing the window of a close request as well *)
window_event_finish_on_close ==
    /\ pc = "window_event_finish"
    /\ LET destroyed == (calls[1].v \in {"Destroyed", "CloseRequested"})
       IN  IF destroyed
           THEN /\ windows' = remove(windows, calls[1].w)
                /\ calls' = Append(calls, Call("remove", calls[1].w, ""))
                /\ removed' = removed \cup {calls[1].w}
           ELSE UNCHANGED <<windows, calls, removed>>
    /\ pc' = "events"
    /\ UNCHANGED <<control_flow, now, EXIT_REQUESTED, first_resume_done, loop_exiting,
                   todo, requested, exit_calls, resumes, surface_hooks, closed>>

(* window_event: the removal of a destroyed window, and the return *)
window_event_finish ==
    /\ pc = "window_event_finish"
    /\ LET destroyed == (event = "Destroyed")
       IN  IF destroyed
           THEN /\ windows' = remove(windows, window_id)
                /\ calls' = Append(calls, Call("remove", window_id, ""))
                /\ removed' = removed \cup {window_id}
           ELSE UNCHANGED <<windows, calls, removed>>
    /\ pc' = "events"
    /\ UNCHANGED <<control_flow, now, EXIT_REQUESTED, first_resume_done, loop_exiting,
                   todo, requested, exit_calls, resumes, surface_hooks, closed>>

(* ------------------------------- Spec ---------------------------------- *)
Next ==
    \/ Tick
    \/ external_request_exit
    \/ new_events_begin
    \/ new_events_window
    \/ new_events_return
    \/ resumed
    \/ about_to_wait_begin
    \/ about_to_wait_window
    \/ about_to_wait_return
    \/ exiting
    \/ window_event_begin
    \/ window_event_handler
    \/ window_event_redraw
    \/ window_event_process
    \/ window_event_finish

Spec == Init /\ [][Next]_vars

TypeOK ==
    /\ control_flow \in ControlFlow
    /\ now \in Ticks
    /\ EXIT_REQUESTED \in BOOLEAN
    /\ DOMAIN windows \subseteq WindowIds
    /\ first_resume_done \in BOOLEAN
    /\ requested \in ControlFlow

(* ---------------- aggregation alone: sequences of apply ---------------- *)
(* aggregate_control_flow called MaxApply times at most, from a committed  *)
(* Wait, with the clock advancing between the calls; calls records each    *)
(* proposed value and the clock at the call.                               *)
InitApply ==
    /\ control_flow = Wait
    /\ now \in Ticks
    /\ EXIT_REQUESTED = FALSE
    /\ windows = <<>>
    /\ first_resume_done = FALSE
    /\ loop_exiting = FALSE
    /\ pc = "apply"
    /\ todo = {}
    /\ calls = <<>>
    /\ requested = Wait
    /\ exit_calls = 0
    /\ resumes = 0
    /\ surface_hooks = 0
    /\ closed = FALSE
    /\ removed = {}

apply ==
    /\ pc = "apply"
    /\ Len(calls) < MaxApply
    /\ \E next_update \in NextUpdate :
        /\ Fold(next_update)
        /\ calls' = Append(calls, Call("aggregate_control_flow", now, into(next_update)))
    /\ UNCHANGED <<now, EXIT_REQUESTED, windows, first_resume_done, loop_exiting,
                   pc, todo, exit_calls, resumes, surface_hooks, closed, removed>>

NextApply ==
    \/ apply
    \/ Tick

SpecApply == InitApply /\ [][NextApply]_vars

(* the strongest of the values proposed by the calls of a sequence *)
RECURSIVE StrongestOf(_)
StrongestOf(seq) ==
    IF seq = <<>> THEN Wait
    ELSE Strongest(StrongestOf(SubSeq(seq, 1, Len(seq) - 1)), seq[Len(seq)].v)

(* every At(t) proposed by the calls of a sequence was at or beyond the    *)
(* clock plus the margin when it was proposed (w holds the clock)          *)
AllFar(seq) ==
    \A i \in 1..Len(seq) : seq[i].v.k = "WaitUntil" => seq[i].v.t >= seq[i].w + Margin

(* C1, as stated: after any sequence of apply calls from Idle the          *)
(* committed policy is the strongest of all proposed values.               *)
C1_Original ==
    pc = "apply" => control_flow = StrongestOf(calls)

(* C1, amended: after any sequence of apply calls from Idle the committed  *)
(* policy is the strongest of all proposed values when every proposed      *)
(* At(t) had t >= now + margin at its call; otherwise it is that strongest *)
(* value or Now.                                                           *)
C1_StrongestOrNow ==
    pc = "apply" =>
        /\ AllFar(calls) => control_flow = StrongestOf(calls)
        /\ control_flow \in {StrongestOf(calls), Poll}

C1_Witness ==
    /\ pc = "apply"
    /\ AllFar(calls)
    /\ \E i, j \in 1..Len(calls) :
        /\ i < j
        /\ calls[i].v.k = "WaitUntil"
        /\ calls[j].v.k = "WaitUntil"
        /\ calls[j].v.t < calls[i].v.t
        /\ control_flow = calls[j].v

(* ----------------------------- sanitization ---------------------------- *)
(* the step of window_event that sanitizes the committed policy *)
SanitizeStep == pc = "events" /\ pc' = "window_event_handler"

(* C2, as stated: sanitizing At(t) yields Now whenever t <= now + margin,  *)
(* and leaves every other policy unchanged.                                *)
C2_Original ==
    [][SanitizeStep =>
        control_flow' = IF control_flow.k = "WaitUntil" /\ control_flow.t <= now + Margin
                        THEN Poll ELSE control_flow]_vars

(* C2, amended: sanitizing At(t) yields Now whenever t < now + margin, and *)
(* leaves the policy unchanged when t >= now + margin (t = now + margin    *)
(* included) or when it is Idle or Now.                                    *)
C2_Sanitize ==
    [][SanitizeStep =>
        control_flow' = IF control_flow.k = "WaitUntil" /\ control_flow.t < now + Margin
                        THEN Poll ELSE control_flow]_vars

(* a sanitization has rewritten a committed At(t) to Now *)
C2_Witness ==
    /\ pc = "window_event_handler"
    /\ calls[2].v.k = "WaitUntil"
    /\ control_flow = Poll

(* ------------------------- the effective policy ------------------------ *)
(* C3, as stated: in every reachable state the committed policy is the     *)
(* strongest value requested by any participant since the last reset.      *)
C3_Original ==
    pc # "apply" => control_flow = requested

(* C3, amended: in every reachable state the committed policy is the       *)
(* strongest value requested since the last reset, or it is Now while the  *)
(* strongest requested value is an At(t) with t < now + margin.            *)
C3_StrongestOrSanitized ==
    pc # "apply" =>
        \/ control_flow = requested
        \/ /\ control_flow = Poll
           /\ requested.k = "WaitUntil"
           /\ requested.t < now + Margin

(* a window's redraw answer is the committed policy, stronger than what    *)
(* the wake step had committed                                             *)
C3_Witness ==
    /\ pc = "window_event_process"
    /\ calls[1].v = "RedrawRequested"
    /\ control_flow.k = "WaitUntil"
    /\ control_flow = into(calls[Len(calls)].v)
    /\ Cardinality(DOMAIN windows) = 2

(* ------------------------------ exit signal ---------------------------- *)
(* the step that enters about_to_wait *)
IdleBegin == pc = "events" /\ pc' \in {"about_to_wait", "exiting"}

(* C4: request_exit() is idempotent and permanent: every call leaves the   *)
(* exit flag true, no step of the dispatcher resets the flag, and the      *)
(* first idle step that finds it set commands loop termination.            *)
C4_ExitPermanent ==
    [][/\ exit_calls' # exit_calls => EXIT_REQUESTED'
       /\ EXIT_REQUESTED => EXIT_REQUESTED'
       /\ exit_calls > 0 => EXIT_REQUESTED
       /\ (EXIT_REQUESTED /\ IdleBegin) => (loop_exiting' /\ pc' = "exiting")]_vars

(* request_exit() was called twice and the idle step has commanded         *)
(* termination                                                             *)
C4_Witness ==
    /\ exit_calls = 2
    /\ EXIT_REQUESTED
    /\ loop_exiting
    /\ pc = "exiting"

(* ------------------------------- registry ------------------------------ *)
(* the last handler that ran was a window_event, and it has returned *)
EventDone == pc = "events" /\ calls # <<>> /\ calls[1].op = "window_event"

(* C5: once resumed has returned, every window registered during it is     *)
(* mapped by the registry under its identifier; once the window_event for  *)
(* a Destroyed event has returned, the event's window identifier is not in *)
(* the registry.                                                           *)
C5_Registry ==
    /\ (pc = "events" /\ calls # <<>> /\ calls[1].op = "resumed") =>
            \A n \in 1..Len(calls) :
                calls[n].op = "register_window" =>
                    /\ calls[n].w \in DOMAIN windows
                    /\ windows[calls[n].w] = Window(calls[n].w)
    /\ (EventDone /\ event = "Destroyed") => window_id \notin DOMAIN windows

(* a registered window has been destroyed and the other one is still       *)
(* registered                                                              *)
C5_Witness ==
    /\ EventDone
    /\ event = "Destroyed"
    /\ calls[Len(calls)].op = "remove"
    /\ window_id \notin DOMAIN windows
    /\ windows # <<>>

(* ------------------------------ activation ----------------------------- *)
(* C6: across any number of resumed notifications the "surfaces creatable" *)
(* hook has been invoked exactly once as soon as one notification has      *)
(* arrived, and first_resume_done is true from the first notification on.  *)
C6_OneShot ==
    /\ surface_hooks = (IF resumes > 0 THEN 1 ELSE 0)
    /\ first_resume_done = (resumes > 0)

(* a second resumed notification has returned without invoking the hook *)
C6_Witness ==
    /\ resumes = 2
    /\ surface_hooks = 1
    /\ pc = "events"
    /\ Len(calls) = 1
    /\ calls[1].op = "resumed"

(* --------------------------------- close ------------------------------- *)
(* C7: once a close-requested event has been processed the exit flag is    *)
(* set, and no idle step gets past its exit check afterwards: the next     *)
(* idle step commands termination whatever policy is committed and         *)
(* whatever windows are registered.                                        *)
C7_CloseExits ==
    /\ (pc \in {"window_event_finish", "events"} /\ calls # <<>>
            /\ calls[1].op = "window_event" /\ event = "CloseRequested") => closed
    /\ closed => EXIT_REQUESTED
    /\ closed => pc \notin {"about_to_wait", "waiting", "new_events"}
    /\ (closed /\ pc \in {"exiting", "done"}) => loop_exiting

(* window 1 was asked to close while a timed policy was committed and the  *)
(* other window is registered; the idle step has commanded termination     *)
C7_Witness ==
    /\ closed
    /\ loop_exiting
    /\ pc = "exiting"
    /\ control_flow.k = "WaitUntil"
    /\ Cardinality(DOMAIN windows) = 2

(* ------------------------------- idle step ----------------------------- *)
(* the number of calls of an operation on a window in a sequence of calls *)
Count(seq, op, w) == Cardinality({n \in 1..Len(seq) : seq[n].op = op /\ seq[n].w = w})

(* the answer of the window's redraw_needed() in a sequence of calls *)
NeedsRedraw(seq, w) ==
    \E n \in 1..Len(seq) : seq[n].op = "redraw_needed" /\ seq[n].w = w /\ seq[n].v = "true"

(* C8: an idle step that finds the exit flag unset leaves the committed    *)
(* policy unchanged at each of its steps, and when it returns every        *)
(* registered window has been asked needs_redraw once and has received one *)
(* request_redraw if it answered true and none if it answered false.       *)
C8_IdleStep ==
    [][/\ ((IdleBegin /\ ~EXIT_REQUESTED) \/ pc = "about_to_wait") =>
            control_flow' = control_flow
       /\ (pc = "about_to_wait" /\ pc' = "waiting") =>
            \A w \in DOMAIN windows :
                /\ Count(calls, "redraw_needed", w) = 1
                /\ Count(calls, "request_redraw", w) =
                        (IF NeedsRedraw(calls, w) THEN 1 ELSE 0)]_vars

(* an idle step has returned: one window needed a redraw, the other did    *)
(* not, and a timed policy is committed                                    *)
C8_Witness ==
    /\ pc = "waiting"
    /\ calls # <<>>
    /\ calls[1].op = "about_to_wait"
    /\ control_flow.k = "WaitUntil"
    /\ \E w1, w2 \in DOMAIN windows :
        /\ NeedsRedraw(calls, w1)
        /\ Count(calls, "request_redraw", w1) = 1
        /\ ~NeedsRedraw(calls, w2)
        /\ Count(calls, "redraw_needed", w2) = 1

(* ------------------------------ redraw fold ---------------------------- *)
(* the step of window_event that calls the window's redraw and folds its   *)
(* answer                                                                  *)
RedrawStep ==
    /\ pc = "window_event_redraw"
    /\ pc' = "window_event_process"
    /\ event = "RedrawRequested"

(* the answer of the redraw call that a RedrawStep has just logged *)
RedrawAnswer == calls'[Len(calls')].v

(* t is earlier than the committed value (Idle is later than any instant,  *)
(* Now earlier than any)                                                   *)
EarlierThanCommitted(t) ==
    \/ control_flow.k = "Wait"
    \/ control_flow.k = "WaitUntil" /\ t < control_flow.t

(* C9, as stated: when redraw() answers At(t2) the committed policy        *)
(* becomes At(t2) if t2 is earlier than the committed value, and is        *)
(* unchanged otherwise.                                                    *)
C9_Original ==
    [][(RedrawStep /\ RedrawAnswer.n = "WaitUntil") =>
        control_flow' = IF EarlierThanCommitted(RedrawAnswer.t)
                        THEN WaitUntil(RedrawAnswer.t)
                        ELSE control_flow]_vars

(* C9, amended: when redraw() answers At(t2) and t2 is earlier than the    *)
(* committed value, the committed policy becomes At(t2) if t2 >= now +     *)
(* margin and Now if t2 < now + margin; it is unchanged otherwise.         *)
C9_RedrawFold ==
    [][(RedrawStep /\ RedrawAnswer.n = "WaitUntil") =>
        control_flow' = IF EarlierThanCommitted(RedrawAnswer.t)
                        THEN IF RedrawAnswer.t < now + Margin
                             THEN Poll
                             ELSE WaitUntil(RedrawAnswer.t)
                        ELSE control_flow]_vars

(* a redraw answer At(t2) has replaced a later committed At(t) *)
C9_Witness ==
    /\ pc = "window_event_process"
    /\ event = "RedrawRequested"
    /\ calls[Len(calls)].op = "redraw"
    /\ calls[Len(calls)].v.n = "WaitUntil"
    /\ control_flow = into(calls[Len(calls)].v)
    /\ requested = control_flow
    /\ calls[2].v.k = "WaitUntil"
    /\ calls[2].v.t > control_flow.t

(* ------------------------- unregistered window ------------------------- *)
InWindowEvent ==
    pc \in {"window_event_handler", "window_event_redraw",
            "window_event_process", "window_event_finish"}

(* C10: a window_event whose window id is not in the registry never        *)
(* returns: it does not get past the lookup before process_event, the      *)
(* dispatcher ends in the fatal state, and nothing runs after that.        *)
C10_UnknownWindowFatal ==
    [][/\ (InWindowEvent /\ window_id \notin DOMAIN windows) =>
            /\ pc # "window_event_finish"
            /\ pc' \in {"window_event_handler", "window_event_redraw",
                        "window_event_process", "panicked"}
            /\ (pc = "window_event_process" /\ pc' # pc) => pc' = "panicked"
            /\ windows' = windows
       /\ pc = "panicked" => UNCHANGED vars]_vars

(* an event other than a redraw request named an unregistered window and   *)
(* the dispatcher is in the fatal state                                    *)
C10_Witness ==
    /\ pc = "panicked"
    /\ event = "Other"
    /\ window_id \notin DOMAIN windows
    /\ calls[Len(calls)].op = "handle_window_event"

(* ------------------------- the loop's scheduling ----------------------- *)
(* What the platform and the loop thread guarantee: a handler that has     *)
(* started runs to its end; every batch of events ends with about_to_wait; *)
(* a loop that sleeps with Poll or WaitUntil committed wakes up.  A loop    *)
(* that sleeps with Wait committed wakes up only when the platform has an  *)
(* event for it, which nothing guarantees; the first new_events           *)
(* (StartCause::Init) always comes.                                        *)
Fairness ==
    /\ WF_vars(new_events_begin /\ (control_flow.k # "Wait" \/ calls = <<>>))
    /\ WF_vars(new_events_window)
    /\ WF_vars(new_events_return)
    /\ SF_vars(about_to_wait_begin)
    /\ WF_vars(about_to_wait_window)
    /\ WF_vars(about_to_wait_return)
    /\ WF_vars(exiting)
    /\ WF_vars(window_event_handler)
    /\ WF_vars(window_event_redraw)
    /\ WF_vars(window_event_process)
    /\ WF_vars(window_event_finish)

SpecLive == Init /\ [][Next]_vars /\ Fairness

(* C11: once request_exit() has been called, at whatever point of the      *)
(* dispatcher's steps and whatever policy is committed, the loop           *)
(* eventually reaches an idle step that commands termination (unless the   *)
(* dispatcher has aborted on an unregistered window).                      *)
C11_ExitObserved ==
    EXIT_REQUESTED ~> (loop_exiting \/ pc = "panicked")

(* --------------------------- terminate command ------------------------- *)
(* C12: event_loop.exit() is called only by the step that enters an idle   *)
(* step, and only when the exit flag is set; the window_event that         *)
(* requested exit for a registered window goes on to forward the event to  *)
(* the window's process_event and returns without the loop being told to   *)
(* terminate.                                                              *)
C12_ExitOnlyWhenIdle ==
    [][/\ loop_exiting' # loop_exiting =>
            (IdleBegin /\ EXIT_REQUESTED /\ loop_exiting')
       /\ (pc = "window_event_process" /\ event = "CloseRequested"
                /\ window_id \in DOMAIN windows /\ pc' # pc) =>
            /\ pc' = "window_event_finish"
            /\ calls'[Len(calls')].op = "process_event"
            /\ calls'[Len(calls')].w = window_id
            /\ calls'[Len(calls')].v = "CloseRequested"
       /\ (pc = "window_event_finish" /\ pc' # pc) => pc' = "events"]_vars

(* the window_event of a close request has returned, process_event         *)
(* included, and the loop has not been told to terminate                   *)
C12_Witness ==
    /\ EventDone
    /\ event = "CloseRequested"
    /\ calls[Len(calls)].op = "process_event"
    /\ EXIT_REQUESTED
    /\ ~loop_exiting

(* ------------------------- removal of a window ------------------------- *)
(* C13: during a window_event the registry is unchanged until the event    *)
(* has been forwarded to the window's process_event; the window is still   *)
(* registered then; and the registry loses a window only in the last step  *)
(* of the window_event of its Destroyed event, after its process_event has *)
(* received the event once, and only if it has not been removed before.    *)
C13_RemovedAfterProcess ==
    [][/\ (InWindowEvent /\ pc # "window_event_finish") => windows' = windows
       /\ pc = "window_event_finish" =>
            /\ window_id \in DOMAIN windows
            /\ calls[Len(calls)].op = "process_event"
            /\ calls[Len(calls)].w = window_id
       /\ (\E w \in DOMAIN windows : w \notin DOMAIN windows') =>
            /\ pc = "window_event_finish"
            /\ event = "Destroyed"
            /\ Count(calls, "process_event", window_id) = 1
            /\ Count(calls, "remove", window_id) = 0
            /\ Count(calls', "remove", window_id) = 1
            /\ DOMAIN windows' = (DOMAIN windows) \ {window_id}
            /\ window_id \notin removed]_vars

(* process_event has received the Destroyed event of a window that is      *)
(* still registered                                                        *)
C13_Witness ==
    /\ pc = "window_event_finish"
    /\ event = "Destroyed"
    /\ calls[Len(calls)].op = "process_event"
    /\ window_id \in DOMAIN windows

(* ---------------------- order within window_event ---------------------- *)
(* the operations of a sequence of calls *)
Ops(seq) == [n \in 1..Len(seq) |-> seq[n].op]

(* the calls of a window_event for a registered window, in order *)
ExpectedOps(kind) ==
    <<"window_event", "sanitize_control_flow", "handle_window_event">>
        \o (IF kind = "RedrawRequested" THEN <<"redraw">> ELSE <<>>)
        \o (IF kind = "CloseRequested" THEN <<"request_exit">> ELSE <<>>)
        \o <<"process_event">>
        \o (IF kind = "Destroyed" THEN <<"remove">> ELSE <<>>)

(* C14: the calls of a running window_event are a prefix of: sanitize,     *)
(* the handler's per-event hook, redraw (RedrawRequested only),            *)
(* request_exit (CloseRequested only), process_event; and once it has      *)
(* returned they are all of these, with process_event called exactly once  *)
(* whatever the kind of the event.                                         *)
C14_StepOrder ==
    /\ InWindowEvent =>
            /\ Len(calls) <= Len(ExpectedOps(event))
            /\ Ops(calls) = SubSeq(ExpectedOps(event), 1, Len(calls))
    /\ pc = "window_event_finish" =>
            /\ Ops(calls) \o (IF event = "Destroyed" THEN <<"remove">> ELSE <<>>)
                    = ExpectedOps(event)
    /\ EventDone =>
            /\ Ops(calls) = ExpectedOps(event)
            /\ Count(calls, "process_event", window_id) = 1

(* the window_event of a redraw request has returned *)
C14_Witness ==
    /\ EventDone
    /\ event = "RedrawRequested"
    /\ Ops(calls) = <<"window_event", "sanitize_control_flow", "handle_window_event",
                      "redraw", "process_event">>

(* ------------------------------ wake step ------------------------------ *)
(* the last handler that ran was a new_events, and it has returned *)
WakeDone == pc = "events" /\ calls # <<>> /\ calls[1].op = "new_events"

IsFold(call) == call.op = "aggregate_control_flow"

(* the aggregate_control_flow calls of a sequence of calls *)
Folds(seq) == SelectSeq(seq, IsFold)

(* the policy committed by folding, from Wait, the proposals of a sequence *)
(* of aggregate_control_flow calls taken in the order `order`, the n-th    *)
(* fold being made at the clock of the n-th call of the sequence           *)
RECURSIVE ReplayUpTo(_, _, _)
ReplayUpTo(seq, order, n) ==
    IF n = 0 THEN Wait
    ELSE aggregate_control_flow(ReplayUpTo(seq, order, n - 1), seq[order[n]].v, seq[n].w)

Replay(seq, order) == ReplayUpTo(seq, order, Len(seq))

(* C15: when a wake step has returned, every registered window has been    *)
(* asked handle_loop_wake_up exactly once and no other window has, each    *)
(* answer has been folded, and the committed policy is fixed by the        *)
(* answers and the clock alone: it is the strongest answer, or Now when an *)
(* answer At(t) was within the margin of the clock; it is Idle when no     *)
(* window is registered.                                                   *)
C15_WakeStep ==
    WakeDone =>
        /\ \A w \in DOMAIN windows : Count(calls, "handle_loop_wake_up", w) = 1
        /\ \A n \in 1..Len(calls) :
                calls[n].op = "handle_loop_wake_up" =>
                    /\ calls[n].w \in DOMAIN windows
                    /\ n < Len(calls)
                    /\ calls[n + 1].op = "aggregate_control_flow"
                    /\ calls[n + 1].v = into(calls[n].v)
        /\ Len(Folds(calls)) = Cardinality(DOMAIN windows)
        /\ control_flow \in {StrongestOf(Folds(calls)), Poll}
        /\ AllFar(Folds(calls)) => control_flow = StrongestOf(Folds(calls))
        /\ control_flow = Replay(Folds(calls), [n \in 1..Len(Folds(calls)) |-> n])
        /\ DOMAIN windows = {} => control_flow = Wait

(* a wake step over two windows with different answers has committed the   *)
(* earlier instant                                                         *)
C15_Witness ==
    /\ WakeDone
    /\ Cardinality(DOMAIN windows) = 2
    /\ control_flow.k = "WaitUntil"
    /\ Len(Folds(calls)) = 2
    /\ Folds(calls)[1].v # Folds(calls)[2].v
    /\ control_flow = StrongestOf(Folds(calls))

(* ---------------------- idle step and the exit flag -------------------- *)
(* C16: an idle step that finds the exit flag set calls event_loop.exit()  *)
(* and nothing on any window; an idle step that finds it unset has, when   *)
(* it returns, called main_events_cleared exactly once on every registered *)
(* window, before that window's redraw_needed.                             *)
C16_IdleStepCalls ==
    [][/\ (IdleBegin /\ EXIT_REQUESTED) =>
            /\ Ops(calls') = <<"about_to_wait", "exit">>
            /\ pc' = "exiting"
       /\ (IdleBegin /\ ~EXIT_REQUESTED) =>
            /\ Ops(calls') = <<"about_to_wait">>
            /\ pc' = "about_to_wait"
       /\ pc = "exiting" => Len(calls) = 2
       /\ (pc = "about_to_wait" /\ pc' = "waiting") =>
            \A w \in DOMAIN windows :
                /\ Count(calls, "main_events_cleared", w) = 1
                /\ \A i, j \in 1..Len(calls) :
                        (/\ calls[i].op = "main_events_cleared" /\ calls[i].w = w
                         /\ calls[j].op = "redraw_needed" /\ calls[j].w = w) => i < j]_vars

(* an idle step has found the exit flag set while two windows are          *)
(* registered, and has called none of them                                 *)
C16_Witness ==
    /\ pc = "exiting"
    /\ Cardinality(DOMAIN windows) = 2
    /\ Ops(calls) = <<"about_to_wait", "exit">>

(* ------------------------------ no weakening --------------------------- *)
(* C17: no step other than the reset of a wake step weakens the committed  *)
(* policy: it stays as it is or becomes stronger (Now, or an earlier       *)
(* instant).                                                               *)
C17_NeverWeakens ==
    [][\/ pc = "waiting" /\ pc' = "new_events"
       \/ control_flow' = control_flow
       \/ StrongerThan(control_flow', control_flow)]_vars

(* the handler's answer has replaced a committed instant by an earlier one *)
C17_Witness ==
    /\ pc = "window_event_redraw"
    /\ calls[2].v.k = "WaitUntil"
    /\ control_flow.k = "WaitUntil"
    /\ control_flow.t < calls[2].v.t

(* --------------------------- order of the visit ------------------------ *)
Permutations(n) ==
    {order \in [1..n -> 1..n] : \A i, j \in 1..n : i # j => order[i] # order[j]}

(* C18, as stated: folding the on_wake answers of a wake step in any other *)
(* order, with the same clock readings, commits the same policy.           *)
C18_Original ==
    WakeDone =>
        \A order \in Permutations(Len(Folds(calls))) :
            Replay(Folds(calls), order) = control_flow

(* the two policies are Now and an At(t) with t before `limit` *)
NowOrNear(a, b, limit) ==
    \/ a.k = "Poll" /\ b.k = "WaitUntil" /\ b.t < limit
    \/ b.k = "Poll" /\ a.k = "WaitUntil" /\ a.t < limit

(* C18, amended: folding the on_wake answers of a wake step in any other   *)
(* order commits the same policy when the clock reads the same at every    *)
(* fold; when the clock advances between the folds the two orders commit   *)
(* the same policy, or one commits Now and the other the earliest answer   *)
(* At(t), with t < now + margin at the last fold.                          *)
C18_OrderUpToSanitization ==
    WakeDone =>
        LET folds == Folds(calls)
            n == Len(folds)
        IN  \A order \in Permutations(n) :
                /\ \/ Replay(folds, order) = control_flow
                   \/ NowOrNear(Replay(folds, order), control_flow, folds[n].w + Margin)
                /\ (\A i \in 1..n : folds[i].w = folds[1].w) =>
                        Replay(folds, order) = control_flow

(* a wake step over two windows during which the clock has advanced; the   *)
(* other order of the visit would have committed Now                       *)
C18_Witness ==
    /\ WakeDone
    /\ Len(Folds(calls)) = 2
    /\ Folds(calls)[1].w < Folds(calls)[2].w
    /\ control_flow.k = "WaitUntil"
    /\ Replay(Folds(calls), <<2, 1>>) = Poll

(* --------------------------- registry changes -------------------------- *)
(* C19: the registry changes only when the first resumed registers windows *)
(* (the registered ones stay as they are) and when the last step of the    *)
(* window_event of a Destroyed event removes exactly the event's window.   *)
C19_RegistryFrame ==
    [][windows' # windows =>
        \/ /\ pc = "events"
           /\ ~first_resume_done
           /\ first_resume_done'
           /\ Ops(calls')[2] = "handle_can_create_surface"
           /\ DOMAIN windows \subseteq DOMAIN windows'
           /\ \A w \in DOMAIN windows : windows'[w] = windows[w]
        \/ /\ pc = "window_event_finish"
           /\ event = "Destroyed"
           /\ DOMAIN windows' = (DOMAIN windows) \ {window_id}
           /\ \A w \in DOMAIN windows' : windows'[w] = windows[w]]_vars

(* a wake step has run over the window that is left after the other one    *)
(* was destroyed                                                           *)
C19_Witness ==
    /\ WakeDone
    /\ removed # {}
    /\ Cardinality(DOMAIN windows) = 1
    /\ Len(Folds(calls)) = 1

(* ------------------------- after the destruction ----------------------- *)
(* the operations the dispatcher calls on a window *)
WindowOps ==
    {"handle_loop_wake_up", "main_events_cleared", "redraw_needed",
     "request_redraw", "redraw", "process_event"}

(* the calls a step adds: those of the handler it starts, or those it      *)
(* appends to the running handler's                                        *)
NewCalls ==
    IF pc \in {"waiting", "events", "exiting"}
    THEN IF pc' # pc \/ resumes' # resumes THEN calls' ELSE <<>>
    ELSE SubSeq(calls', Len(calls) + 1, Len(calls'))

(* C20: no step calls handle_loop_wake_up, main_events_cleared,            *)
(* redraw_needed, request_redraw, redraw or process_event on a window that *)
(* the registry has removed after its Destroyed event: every such call is  *)
(* on a window that is registered.                                         *)
C20_NoCallsAfterDestroyed ==
    [][\A n \in 1..Len(NewCalls) :
            NewCalls[n].op \in WindowOps =>
                /\ NewCalls[n].w \notin removed
                /\ NewCalls[n].w \in DOMAIN windows]_vars

(* an idle step has visited the window that is left after the other one    *)
(* was destroyed                                                           *)
C20_Witness ==
    /\ pc = "waiting"
    /\ removed # {}
    /\ calls # <<>>
    /\ calls[1].op = "about_to_wait"
    /\ Cardinality(DOMAIN windows) = 1
    /\ \E w \in DOMAIN windows : Count(calls, "main_events_cleared", w) = 1
====
